---- MODULE Spec2Model ----
(***************************************************************************)
(* Model of the domain health-check engine of domain_info_bot:             *)
(*   bot/utils.py      the HTTP/HTTPS probe with retries and curl fallback  *)
(*   bot/scheduler.py  the two periodic sweeps and the settings resolver    *)
(*   db/models.py      the domain and user-settings records                 *)
(*                                                                         *)
(* Python values are encoded as follows.  An optional value is a tuple:    *)
(* None is <<>> and a set value v is <<v>>.  A text is a tuple of its      *)
(* pieces (an f-string is the concatenation of its pieces); the output of  *)
(* curl is a tuple of characters so that isdigit() and int() are computed. *)
(***************************************************************************)
EXTENDS Integers, Sequences, FiniteSets, TLC

VARIABLES
    domains,        \* table "domains": the rows in the order fetchall() returns them
    user_settings,  \* table "user_settings": user id -> None or <<record>>
    pc,             \* position of the running sweep job: "idle", "running", "done"
    job,            \* which sweep function the job runs: "http", "expiry" ("none" before the first)
    rows,           \* the job's local `domains`, the result of fetchall()
    idx,            \* index in rows of the next row of the for loop
    http_result,    \* the job's local `http_result` (None while unassigned)
    ev,             \* record of the last loop iteration: what it read, probed and sent
    outcome,        \* how the last job ended: "none", "returned", "raised"
    p_proto,        \* probe harness: the protocol fetch_with_retries is called for
    p_env,          \* probe harness: what the network and curl answer
    p_out,          \* probe harness: None, or <<what the probe returned>>
    hs,             \* the updates being handled: slot -> the handler's position and locals
    clock,          \* the interval job: the time, the next run time, the running
                    \* instances and what each due run time led to
    inflight        \* loop harness: the rows whose iteration has begun and not ended

vars == <<domains, user_settings, pc, job, rows, idx, http_result, ev, outcome,
          p_proto, p_env, p_out, hs, clock, inflight>>

sweep_vars == <<domains, user_settings, pc, job, rows, idx, http_result, ev, outcome>>
probe_vars == <<p_proto, p_env, p_out>>
other_vars == <<hs, clock, inflight>>

None == <<>>
Some(v) == <<v>>

(***************************************************************************)
(* Bounds of the model                                                     *)
(***************************************************************************)
\* largest number of rows in the table "domains"
MaxDomains == 2

(***************************************************************************)
(* Python string helpers used by run_curl_check                            *)
(***************************************************************************)
DigitChars == <<"0", "1", "2", "3", "4", "5", "6", "7", "8", "9">>
Whitespace == {" ", "\n", "\t", "\r"}

\* str.strip(): drop leading and trailing whitespace
RECURSIVE lstrip(_)
lstrip(s) ==
    IF Len(s) > 0 /\ s[1] \in Whitespace THEN lstrip(Tail(s)) ELSE s

RECURSIVE rstrip(_)
rstrip(s) ==
    IF Len(s) > 0 /\ s[Len(s)] \in Whitespace
    THEN rstrip(SubSeq(s, 1, Len(s) - 1)) ELSE s

strip(s) == rstrip(lstrip(s))

\* str.isdigit(): non-empty and every character a digit
isdigit(s) ==
    /\ Len(s) > 0
    /\ \A i \in 1..Len(s) : \E n \in 1..10 : DigitChars[n] = s[i]

DigitVal(c) == (CHOOSE n \in 1..10 : DigitChars[n] = c) - 1

\* int(): the decimal value of a string of digits
RECURSIVE int(_)
int(s) ==
    IF Len(s) = 0 THEN 0
    ELSE int(SubSeq(s, 1, Len(s) - 1)) * 10 + DigitVal(s[Len(s)])

(***************************************************************************)
(* bot/utils.py: check_http_https and its two nested functions             *)
(*                                                                         *)
(* What the world answers to one protocol of one probe is a record         *)
(*   attempts : what each client.get() would do, in order                  *)
(*              [ok |-> TRUE, code |-> n]  a response with status n        *)
(*              [ok |-> FALSE, err |-> e]  an exception with str(e) = e    *)
(*   curl     : [kind |-> "absent", exc |-> e]  create_subprocess_exec     *)
(*                                              raises                     *)
(*              [kind |-> "ran", rc, stdout, stderr]  curl ran and exited  *)
(*                                              with rc                    *)
(***************************************************************************)
\* range(3) in fetch_with_retries
HttpxAttempts == 3

\* the bound on the status code curl prints, in run_curl_check
CurlCodeLimit == 600

run_curl_check(curl) ==
    IF curl.kind = "absent"
    THEN [ok |-> FALSE, error |-> <<curl.exc>>]
    ELSE LET code == strip(curl.stdout) IN
         IF isdigit(code) /\ int(code) < CurlCodeLimit
         THEN [ok |-> TRUE, code |-> int(code)]
         ELSE [ok |-> FALSE,
               error |-> <<"curl status: ">> \o code \o <<", stderr: ", curl.stderr>>]

\* The for loop of fetch_with_retries from attempt number `attempt` on.
\* gets and curls count the client.get() and run_curl_check() calls made.
RECURSIVE fetch_loop(_, _, _, _)
fetch_loop(env, attempt, limit, last_error) ==
    IF attempt < limit
    THEN LET r == env.attempts[attempt + 1] IN
         IF r.ok
         THEN [result |-> [status |-> "ok", code |-> r.code],
               gets |-> attempt + 1, curls |-> 0]
         ELSE fetch_loop(env, attempt + 1, limit, Some(r.err))
    ELSE LET curl_result == run_curl_check(env.curl) IN
         [result |-> IF curl_result.ok
                     THEN [status |-> "ok", code |-> curl_result.code]
                     ELSE [status |-> "fail",
                           error |-> <<"httpx: ">> \o last_error \o <<"; curl: ">>
                                     \o curl_result.error],
          gets |-> attempt, curls |-> 1]

\* the slip of giving up one attempt early
fetch_with_retries_short(protocol, env) ==
    fetch_loop(env, 0, HttpxAttempts - 1, None)

fetch_with_retries(protocol, env) ==
    fetch_loop(env, 0, HttpxAttempts, None)

\* check_http_https: both protocols are always fetched (protocols = ["http", "https"]).
\* results is the returned dict; calls is the count of requests made per protocol.
check_http_https(env) ==
    LET h == fetch_with_retries("http", env.http)
        s == fetch_with_retries("https", env.https)
    IN  [results |-> [http |-> h.result, https |-> s.result],
         calls   |-> [http |-> [gets |-> h.gets, curls |-> h.curls],
                      https |-> [gets |-> s.gets, curls |-> s.curls]]]

(***************************************************************************)
(* The answers of the world the probe is checked against                   *)
(***************************************************************************)
AttemptOutcomes ==
    { [ok |-> TRUE, code |-> 200], [ok |-> TRUE, code |-> 503],
      [ok |-> FALSE, err |-> "timed out"], [ok |-> FALSE, err |-> "connection refused"] }

CurlOutcomes ==
    { [kind |-> "absent", exc |-> "No such file or directory: curl"],
      [kind |-> "ran", rc |-> 0, stdout |-> <<"2", "0", "0">>, stderr |-> ""],
      [kind |-> "ran", rc |-> 0, stdout |-> <<"5", "0", "3">>, stderr |-> ""],
      [kind |-> "ran", rc |-> 0, stdout |-> <<"9", "9", "9">>, stderr |-> ""],
      [kind |-> "ran", rc |-> 7, stdout |-> <<"0", "0", "0">>, stderr |-> ""],
      [kind |-> "ran", rc |-> 28, stdout |-> <<"0", "0", "0">>, stderr |-> ""],
      [kind |-> "ran", rc |-> 2, stdout |-> <<>>, stderr |-> "curl: try --help"] }

ProtoEnvs ==
    { [attempts |-> <<a, b, c>>, curl |-> k] :
        a \in AttemptOutcomes, b \in AttemptOutcomes, c \in AttemptOutcomes,
        k \in CurlOutcomes }

\* The external client failed: it is absent, exited non-zero, or got no HTTP response.
CurlFailed(curl) ==
    \/ curl.kind = "absent"
    \/ curl.kind = "ran" /\ (curl.rc # 0 \/ strip(curl.stdout) = <<"0", "0", "0">>)

(***************************************************************************)
(* db/models.py: the records                                               *)
(***************************************************************************)
\* Telegram user ids that own domains
Users == {1, 2}

\* names of the rows of the table, by position (name is unique per user)
DomainNames == <<"a.com", "b.com", "c.com", "d.com">>

\* UserSettings(user_id=u): the column defaults of class UserSettings
DefaultSslWarnDays == 15
DefaultWhoisWarnDays == 30

DefaultSettings(u) ==
    [user_id |-> u,
     track_http |-> TRUE, track_https |-> TRUE, track_ssl |-> TRUE, track_whois |-> TRUE,
     ssl_warn_days |-> DefaultSslWarnDays, whois_warn_days |-> DefaultWhoisWarnDays]

\* Domain(name=n, user_id=u): every override column is nullable and starts as NULL
NewDomain(n, u) ==
    [name |-> n, user_id |-> u,
     track_http |-> None, track_https |-> None, track_ssl |-> None, track_whois |-> None,
     ssl_warn_days |-> None, whois_warn_days |-> None]

(***************************************************************************)
(* bot/scheduler.py                                                        *)
(***************************************************************************)
\* the slip of testing the wrong argument, `settings_value if settings_value is not
\* None else domain_value`: the owner's value, which is never None, always wins
get_value_swapped(domain_value, settings_value) ==
    settings_value

get_value(domain_value, settings_value) ==
    IF domain_value # None THEN domain_value[1] ELSE settings_value

\* str(e) of the AttributeError raised by user_settings.<field> when user_settings is None
NoSettingsError(field) == <<"'NoneType' object has no attribute '", field, "'">>

\* dict.get("days_left", 0)
GetDaysLeft(result) ==
    IF "days_left" \in DOMAIN result THEN result.days_left ELSE 0

\* the slip of flagging a result whose days_left equals the threshold
expiring_le(result, days) ==
    ~result.valid \/ GetDaysLeft(result) <= days

\* not result["valid"] or result.get("days_left", 0) < days
expiring(result, days) ==
    ~result.valid \/ GetDaysLeft(result) < days

NoUsed ==
    [track_http |-> None, track_https |-> None, track_ssl |-> None, track_whois |-> None,
     ssl_warn_days |-> None, whois_warn_days |-> None]

\* The try block of one iteration of check_http_https_domains, up to `if problems`.
\* held is the local http_result on entry; probe is what check_http_https(domain)
\* returns if it is called now.  In the result
\*   exc          None, or <<str(e)>> of the exception the try block raised
\*   problems     the list `problems`
\*   http_result  the local http_result afterwards, with the domain it was fetched for
\*   probes       the calls of check_http_https made, with their request counts
\*   verdicts     per checked protocol, the domain whose fetch the verdict was read from
\*   used         the effective values the code branched on
http_try(row, settings, held, probe) ==
    IF settings = None
    THEN [exc |-> Some(NoSettingsError("track_http")), problems |-> <<>>,
          http_result |-> held, probes |-> <<>>, verdicts |-> <<>>, used |-> NoUsed]
    ELSE
      LET us == settings[1]
          fresh == Some([results |-> probe.results, of |-> row.name])
          call == <<[driver |-> "check_http_https", domain |-> row.name,
                     calls |-> probe.calls]>>
          t_http == get_value(row.track_http, us.track_http)
          r1 == IF t_http THEN fresh ELSE held
          probes1 == IF t_http THEN call ELSE <<>>
          bad1 == t_http /\ r1[1].results.http.status # "ok"
          problems1 == IF bad1
                       THEN <<[category |-> "http", detail |-> r1[1].results.http.error]>>
                       ELSE <<>>
          verdicts1 == IF t_http
                       THEN <<[category |-> "http", of |-> r1[1].of, problem |-> bad1]>>
                       ELSE <<>>
          t_https == get_value(row.track_https, us.track_https)
          \* http_result if "http_result" in locals() else await check_http_https(domain)
          r2 == IF t_https THEN (IF r1 # None THEN r1 ELSE fresh) ELSE r1
          probes2 == IF t_https /\ r1 = None THEN probes1 \o call ELSE probes1
          bad2 == t_https /\ r2[1].results.https.status # "ok"
          problems2 == IF bad2
                       THEN problems1 \o
                            <<[category |-> "https", detail |-> r2[1].results.https.error]>>
                       ELSE problems1
          verdicts2 == IF t_https
                       THEN verdicts1 \o
                            <<[category |-> "https", of |-> r2[1].of, problem |-> bad2]>>
                       ELSE verdicts1
      IN  [exc |-> None, problems |-> problems2, http_result |-> r2,
           probes |-> probes2, verdicts |-> verdicts2,
           used |-> [NoUsed EXCEPT !.track_http = Some(t_http),
                                   !.track_https = Some(t_https)]]

\* The try block of one iteration of check_ssl_whois_domains, up to `if problems`.
\* ssl_result and whois_result are what check_ssl(domain) and
\* check_domain_expiry(domain) return if they are called now.
expiry_try(row, settings, ssl_result, whois_result) ==
    IF settings = None
    THEN [exc |-> Some(NoSettingsError("track_ssl")), problems |-> <<>>,
          probes |-> <<>>, verdicts |-> <<>>, used |-> NoUsed]
    ELSE
      LET us == settings[1]
          t_ssl == get_value(row.track_ssl, us.track_ssl)
          ssl_days == get_value(row.ssl_warn_days, us.ssl_warn_days)
          bad1 == t_ssl /\ expiring(ssl_result, ssl_days)
          problems1 == IF bad1
                       THEN <<[category |-> "ssl",
                               detail |-> <<"SSL certificate is expiring or invalid">>]>>
                       ELSE <<>>
          probes1 == IF t_ssl
                     THEN <<[driver |-> "check_ssl", domain |-> row.name,
                             result |-> ssl_result]>>
                     ELSE <<>>
          t_whois == get_value(row.track_whois, us.track_whois)
          whois_days == get_value(row.whois_warn_days, us.whois_warn_days)
          bad2 == t_whois /\ expiring(whois_result, whois_days)
          problems2 == IF bad2
                       THEN problems1 \o
                            <<[category |-> "whois",
                               detail |-> <<"Domain registration is expiring">>]>>
                       ELSE problems1
          probes2 == IF t_whois
                     THEN probes1 \o <<[driver |-> "check_domain_expiry",
                                        domain |-> row.name, result |-> whois_result]>>
                     ELSE probes1
      IN  [exc |-> None, problems |-> problems2, probes |-> probes2, verdicts |-> <<>>,
           used |-> [NoUsed EXCEPT
                       !.track_ssl = Some(t_ssl),
                       !.ssl_warn_days = IF t_ssl THEN Some(ssl_days) ELSE None,
                       !.track_whois = Some(t_whois),
                       !.whois_warn_days = IF t_whois THEN Some(whois_days) ELSE None]]

\* str(e) of the exception a failed bot.send_message raises
DeliveryError == <<"Forbidden: bot was blocked by the user">>

\* The rest of the iteration: `if problems: send_message` and the except clause.
\* what names the sweep in the texts ("Availability"/"HTTP/HTTPS", "Expiry"/"SSL/WHOIS").
\* deliveries[i] is what the i-th call of bot.send_message does: "sent" or "raised".
\* In the result, sends lists the calls of bot.send_message and escaped tells
\* whether an exception left the except clause (and so the for loop).
notify(what, row, try, deliveries) ==
    LET report == [to |-> row.user_id,
                   text |-> [kind |-> "issues", what |-> what, domain |-> row.name,
                             problems |-> try.problems]]
        failure(e) == [to |-> row.user_id,
                       text |-> [kind |-> "error", what |-> what, domain |-> row.name,
                                 error |-> e]]
    IN  IF try.exc # None
        THEN [sends |-> <<[call |-> failure(try.exc[1]), outcome |-> deliveries[1]]>>,
              escaped |-> deliveries[1] = "raised"]
        ELSE IF try.problems = <<>>
        THEN [sends |-> <<>>, escaped |-> FALSE]
        ELSE IF deliveries[1] = "sent"
        THEN [sends |-> <<[call |-> report, outcome |-> "sent"]>>, escaped |-> FALSE]
        ELSE [sends |-> <<[call |-> report, outcome |-> "raised"],
                          [call |-> failure(DeliveryError), outcome |-> deliveries[2]]>>,
              escaped |-> deliveries[2] = "raised"]

(***************************************************************************)
(* The answers of the world a sweep is checked against                     *)
(***************************************************************************)
Timeout == [ok |-> FALSE, err |-> "timed out"]

\* a host that answers the first request, and one that answers nothing
HostUp == [attempts |-> <<[ok |-> TRUE, code |-> 200], Timeout, Timeout>>,
           curl |-> [kind |-> "absent", exc |-> "No such file or directory: curl"]]
HostDown == [attempts |-> <<Timeout, Timeout, Timeout>>,
             curl |-> [kind |-> "absent", exc |-> "No such file or directory: curl"]]

SweepProtoEnvs == {HostUp, HostDown}

\* the two shapes _check_ssl_sync returns
SslResults ==
    { [valid |-> FALSE, error |-> "handshake failed"] } \cup
    { [valid |-> TRUE, expires_at |-> "date", days_left |-> d, issuer |-> "CA"] :
        d \in {10, 15, 20} }

\* the two shapes _check_domain_expiry_sync returns
WhoisResults ==
    { [valid |-> FALSE, error |-> "WHOIS error"] } \cup
    { [valid |-> TRUE, expires_at |-> "date", days_left |-> d] :
        d \in {10, 20, 30} }

\* what the calls of bot.send_message of one iteration do, in order
Deliveries == {<<"sent", "sent">>, <<"raised", "sent">>, <<"raised", "raised">>}

\* The answers that can make a difference to an iteration: those of the calls it makes.
ProbeAnswers(called, answers, any) == IF called THEN answers ELSE {any}

DeliveryAnswers(try) ==
    IF try.exc = None /\ try.problems = <<>> THEN {<<"sent", "sent">>} ELSE Deliveries

Tracked(row, settings, field) ==
    settings # None /\ get_value(row[field], settings[1][field])

(***************************************************************************)
(* The stores a sweep is checked on                                        *)
(***************************************************************************)
OptBool == {None, Some(TRUE), Some(FALSE)}
OptDays == {None, Some(0), Some(20)}

\* rows whose HTTP/HTTPS overrides vary
HttpRows(n, u) ==
    { [NewDomain(n, u) EXCEPT !.track_http = a, !.track_https = b] :
        a \in OptBool, b \in OptBool }

\* rows whose SSL/WHOIS overrides vary, and rows whose thresholds vary
ExpiryRows(n, u) ==
    { [NewDomain(n, u) EXCEPT !.track_ssl = a, !.track_whois = b] :
        a \in OptBool, b \in OptBool } \cup
    { [NewDomain(n, u) EXCEPT !.track_ssl = a, !.track_whois = a,
                              !.ssl_warn_days = c, !.whois_warn_days = c] :
        a \in {None, Some(TRUE)}, c \in OptDays } \cup
    { [NewDomain(n, u) EXCEPT !.track_ssl = Some(a), !.track_whois = Some(~a),
                              !.ssl_warn_days = Some(0), !.whois_warn_days = Some(0)] :
        a \in BOOLEAN }

\* rows with every track_* override set to False
OffRows(n, u) ==
    { [NewDomain(n, u) EXCEPT !.track_http = Some(FALSE), !.track_https = Some(FALSE),
                              !.track_ssl = Some(FALSE), !.track_whois = Some(FALSE)] }

DomainRows(n, u) == HttpRows(n, u) \cup ExpiryRows(n, u) \cup OffRows(n, u)

\* the settings records a user can have toggled to (the thresholds have no setter)
SettingsRecords(u) ==
    { [DefaultSettings(u) EXCEPT !.track_http = a, !.track_https = ~a] : a \in BOOLEAN } \cup
    { [DefaultSettings(u) EXCEPT !.track_ssl = a, !.track_whois = ~a] : a \in BOOLEAN } \cup
    { DefaultSettings(u) } \cup
    { [DefaultSettings(u) EXCEPT !.track_http = FALSE, !.track_https = FALSE,
                                 !.track_ssl = FALSE, !.track_whois = FALSE] }

\* User 1 has no settings record yet or any of the records above; user 2 has the
\* record /settings creates.
SettingsTables ==
    { [u \in Users |-> IF u = 1 THEN s ELSE Some(DefaultSettings(u))] :
        s \in {None} \cup {Some(r) : r \in SettingsRecords(1)} }

\* Tables of up to MaxDomains rows: one row with overrides, owned by user 1, among
\* rows of user 2 as /add creates them.
Tables ==
    { <<>> } \cup
    UNION { { [i \in 1..n |->
                 IF i = k THEN r ELSE NewDomain(DomainNames[i], 2)] :
              r \in DomainRows(DomainNames[k], 1) } :
            n \in 1..MaxDomains, k \in 1..MaxDomains }

(***************************************************************************)
(* The sweep jobs                                                          *)
(***************************************************************************)
ProbeIdle ==
    /\ p_proto = "http"
    /\ p_env = HostUp
    /\ p_out = None

OtherIdle ==
    /\ hs = <<>>
    /\ clock = None
    /\ inflight = {}

Init ==
    /\ domains \in Tables
    /\ user_settings \in SettingsTables
    /\ pc = "idle"
    /\ job = "none"
    /\ rows = <<>>
    /\ idx = 1
    /\ http_result = None
    /\ ev = None
    /\ outcome = "none"
    /\ ProbeIdle
    /\ OtherIdle

\* `async with SessionLocal()`, the select and fetchall() of either sweep function;
\* with an empty table the for loop ends at once.
Start(j) ==
    /\ pc \in {"idle", "done"}
    /\ job' = j
    /\ rows' = domains
    /\ idx' = 1
    /\ http_result' = None
    /\ ev' = None
    /\ pc' = IF domains = <<>> THEN "done" ELSE "running"
    /\ outcome' = IF domains = <<>> THEN "returned" ELSE "none"
    /\ UNCHANGED <<domains, user_settings>>
    /\ UNCHANGED <<probe_vars, other_vars>>

\* the slip of a sweep that drops the row it has just reported on
sweep_writes_prune(table) ==
    IF table = <<>> THEN table ELSE Tail(table)

\* What an iteration writes to the table "domains": the session of a sweep is only
\* read (select, session.get); nothing is added, changed, deleted or committed.
sweep_writes(table) == table

\* What one iteration leaves behind: the loop moves on, or the exception that left
\* the except clause ends the job.
EndIteration(escaped) ==
    IF escaped
    THEN /\ pc' = "done"
         /\ outcome' = "raised"
         /\ idx' = idx
    ELSE /\ idx' = idx + 1
         /\ pc' = IF idx = Len(rows) THEN "done" ELSE "running"
         /\ outcome' = IF idx = Len(rows) THEN "returned" ELSE "none"

\* one iteration of the for loop of check_http_https_domains
HttpStep ==
    /\ pc = "running"
    /\ job = "http"
    /\ LET row == rows[idx]
           settings == user_settings[row.user_id]
           called == \/ Tracked(row, settings, "track_http")
                     \/ Tracked(row, settings, "track_https") /\ http_result = None
       IN
       \E h \in ProbeAnswers(called, SweepProtoEnvs, HostUp),
          s \in ProbeAnswers(called, SweepProtoEnvs, HostUp) :
         LET try == http_try(row, settings, http_result,
                             check_http_https([http |-> h, https |-> s]))
         IN
         \E deliveries \in DeliveryAnswers(try) :
         LET sent == notify("HTTP/HTTPS", row, try, deliveries)
         IN  /\ http_result' = try.http_result
             /\ ev' = Some([job |-> job, row |-> row, settings |-> settings,
                            world |-> [http |-> h, https |-> s],
                            used |-> try.used, exc |-> try.exc,
                            probes |-> try.probes, verdicts |-> try.verdicts,
                            problems |-> try.problems,
                            sends |-> sent.sends, escaped |-> sent.escaped])
             /\ EndIteration(sent.escaped)
    /\ domains' = sweep_writes(domains)
    /\ UNCHANGED <<user_settings, job, rows>>
    /\ UNCHANGED <<probe_vars, other_vars>>

\* one iteration of the for loop of check_ssl_whois_domains
ExpiryStep ==
    /\ pc = "running"
    /\ job = "expiry"
    /\ LET row == rows[idx]
           settings == user_settings[row.user_id]
           any_ssl == CHOOSE r \in SslResults : ~r.valid
           any_whois == CHOOSE r \in WhoisResults : ~r.valid
       IN
       \E ssl_result \in ProbeAnswers(Tracked(row, settings, "track_ssl"),
                                       SslResults, any_ssl),
          whois_result \in ProbeAnswers(Tracked(row, settings, "track_whois"),
                                         WhoisResults, any_whois) :
         LET try == expiry_try(row, settings, ssl_result, whois_result)
         IN
         \E deliveries \in DeliveryAnswers(try) :
         LET sent == notify("SSL/WHOIS", row, try, deliveries)
         IN  /\ ev' = Some([job |-> job, row |-> row, settings |-> settings,
                            world |-> [ssl |-> ssl_result, whois |-> whois_result],
                            used |-> try.used, exc |-> try.exc,
                            probes |-> try.probes, verdicts |-> try.verdicts,
                            problems |-> try.problems,
                            sends |-> sent.sends, escaped |-> sent.escaped])
             /\ EndIteration(sent.escaped)
    /\ domains' = sweep_writes(domains)
    /\ UNCHANGED <<user_settings, job, rows, http_result>>
    /\ UNCHANGED <<probe_vars, other_vars>>

Next ==
    \/ Start("http")
    \/ Start("expiry")
    \/ HttpStep
    \/ ExpiryStep

Spec == Init /\ [][Next]_vars

(***************************************************************************)
(* Probe harness: fetch_with_retries applied to every answer of the world  *)
(***************************************************************************)
SweepIdle ==
    /\ domains = <<>>
    /\ user_settings = <<>>
    /\ pc = "idle"
    /\ job = "none"
    /\ rows = <<>>
    /\ idx = 1
    /\ http_result = None
    /\ ev = None
    /\ outcome = "none"

ProbeInit ==
    /\ SweepIdle
    /\ OtherIdle
    /\ p_proto \in {"http", "https"}
    /\ p_env \in ProtoEnvs
    /\ p_out = None

\* one call of fetch_with_retries
Fetch ==
    /\ p_out = None
    /\ p_out' = Some(fetch_with_retries(p_proto, p_env))
    /\ UNCHANGED <<p_proto, p_env>>
    /\ UNCHANGED <<sweep_vars, other_vars>>

\* the next call, for another protocol and another answer of the world
NextProbe ==
    /\ p_out # None
    /\ p_proto' \in {"http", "https"}
    /\ p_env' \in ProtoEnvs
    /\ p_out' = None
    /\ UNCHANGED <<sweep_vars, other_vars>>

ProbeNext == Fetch \/ NextProbe

SpecProbe == ProbeInit /\ [][ProbeNext]_vars

(***************************************************************************)
(* Properties                                                              *)
(***************************************************************************)
Categories == {"http", "https", "ssl", "whois"}

TrackField(c) ==
    CASE c = "http" -> "track_http"
      [] c = "https" -> "track_https"
      [] c = "ssl" -> "track_ssl"
      [] c = "whois" -> "track_whois"

\* the effective value of section 3 of the specification, for an existing settings record
Effective(row, us, field) ==
    IF row[field] = None THEN us[field] ELSE row[field][1]

\* the effective flag when the settings record is first got or created with defaults
EffectiveFlag(row, settings, c) ==
    Effective(row, IF settings = None THEN DefaultSettings(row.user_id) ELSE settings[1],
              TrackField(c))

\* the categories an iteration sent requests for
Requested(e) ==
    { c \in Categories :
        \E i \in 1..Len(e.probes) :
            LET p == e.probes[i] IN
            \/ p.driver = "check_http_https" /\ c \in {"http", "https"}
               /\ p.calls[c].gets + p.calls[c].curls > 0
            \/ p.driver = "check_ssl" /\ c = "ssl"
            \/ p.driver = "check_domain_expiry" /\ c = "whois" }

\* the number of problems of category c in a problem list
CountOf(problems, c) ==
    Cardinality({ i \in 1..Len(problems) : problems[i].category = c })

\* C1: in a sweep, each of the six values the code uses for a domain whose owner has a
\* settings record is the domain's value when it is set and the owner's value
\* otherwise; False and 0 are set values.
C1_EffectiveValueUsed ==
    (ev # None /\ ev[1].settings # None) =>
        LET e == ev[1]
            us == e.settings[1]
            eff(f) == Effective(e.row, us, f)
        IN  /\ e.job = "http" =>
                /\ e.used.track_http = Some(eff("track_http"))
                /\ e.used.track_https = Some(eff("track_https"))
            /\ e.job = "expiry" =>
                /\ e.used.track_ssl = Some(eff("track_ssl"))
                /\ e.used.track_whois = Some(eff("track_whois"))
                /\ eff("track_ssl") => e.used.ssl_warn_days = Some(eff("ssl_warn_days"))
                /\ eff("track_whois") =>
                       e.used.whois_warn_days = Some(eff("whois_warn_days"))
            /\ \A f \in {"track_http", "track_https", "track_ssl", "track_whois"} :
                   (e.row[f] = Some(FALSE) /\ e.used[f] # None) => e.used[f] = Some(FALSE)
            /\ \A f \in {"ssl_warn_days", "whois_warn_days"} :
                   (e.row[f] = Some(0) /\ e.used[f] # None) => e.used[f] = Some(0)

\* an override of False met an owner default of True, and a threshold override of 0
\* was used as 0
C1_Witness ==
    /\ ev # None
    /\ ev[1].settings # None
    /\ ev[1].row.track_whois = Some(FALSE)
    /\ ev[1].settings[1].track_whois = TRUE
    /\ ev[1].used.track_whois = Some(FALSE)
    /\ ev[1].row.ssl_warn_days = Some(0)
    /\ ev[1].used.ssl_warn_days = Some(0)

\* C2: a domain whose problem list is non-empty gets exactly one call of
\* bot.send_message in the sweep, to its owner, naming the domain and carrying all its
\* problems, also when a delivery raises.
C2_NotifiedExactlyOnce ==
    (ev # None /\ ev[1].problems # <<>>) =>
        LET e == ev[1] IN
        /\ Len(e.sends) = 1
        /\ e.sends[1].call.to = e.row.user_id
        /\ e.sends[1].call.text.kind = "issues"
        /\ e.sends[1].call.text.domain = e.row.name
        /\ e.sends[1].call.text.problems = e.problems

\* C3: an exception raised while one domain is evaluated gives exactly one error
\* report for it and the sweep goes on to the domains after it.
C3_ExceptionDoesNotEndSweep ==
    (ev # None /\ ev[1].exc # None) =>
        /\ Len(ev[1].sends) = 1
        /\ ev[1].sends[1].call.text.kind = "error"
        /\ ~(outcome = "raised" /\ idx < Len(rows))

\* C4: every HTTP or HTTPS verdict reported for a domain is read from a result fetched
\* for that domain in its own iteration.
C4_VerdictFromOwnProbe ==
    ev # None =>
        \A i \in 1..Len(ev[1].verdicts) : ev[1].verdicts[i].of = ev[1].row.name

\* C8: a sweep sends requests of a category for a domain only if the domain's
\* effective track flag of that category is true.
C8_OnlyTrackedProbed ==
    ev # None =>
        \A c \in Requested(ev[1]) : EffectiveFlag(ev[1].row, ev[1].settings, c)

\* C9: a domain whose four effective track flags are all false gets an empty problem
\* list, no probe and no notification.
C9_AllOffIsSilent ==
    (ev # None /\ \A c \in Categories : ~EffectiveFlag(ev[1].row, ev[1].settings, c)) =>
        /\ ev[1].problems = <<>>
        /\ ev[1].probes = <<>>
        /\ ev[1].sends = <<>>

\* C10: for a tracked expiry category the probe is called once and the sweep adds
\* exactly one problem of the category if the result is invalid or its days_left is
\* strictly below the effective threshold, and none otherwise; an untracked category
\* adds none.
ExpiryRule(e, c, driver, days_field) ==
    LET us == e.settings[1]
        calls == { i \in 1..Len(e.probes) : e.probes[i].driver = driver }
    IN  IF Effective(e.row, us, TrackField(c))
        THEN /\ Cardinality(calls) = 1
             /\ \A i \in calls :
                    LET r == e.probes[i].result IN
                    CountOf(e.problems, c) =
                        IF ~r.valid \/ r.days_left < Effective(e.row, us, days_field)
                        THEN 1 ELSE 0
        ELSE calls = {} /\ CountOf(e.problems, c) = 0

C10_ExpiryThreshold ==
    (ev # None /\ ev[1].job = "expiry" /\ ev[1].settings # None) =>
        /\ ExpiryRule(ev[1], "ssl", "check_ssl", "ssl_warn_days")
        /\ ExpiryRule(ev[1], "whois", "check_domain_expiry", "whois_warn_days")

\* a certificate with exactly the threshold's days left was not flagged
C10_Witness ==
    /\ ev # None
    /\ ev[1].job = "expiry"
    /\ ev[1].used.ssl_warn_days = Some(DefaultSslWarnDays)
    /\ \E i \in 1..Len(ev[1].probes) :
          /\ ev[1].probes[i].driver = "check_ssl"
          /\ ev[1].probes[i].result.valid
          /\ ev[1].probes[i].result.days_left = DefaultSslWarnDays
    /\ CountOf(ev[1].problems, "ssl") = 0

(***************************************************************************)
(* Properties of the probe                                                 *)
(***************************************************************************)
AllAttemptsFailed(env) == \A i \in 1..HttpxAttempts : ~env.attempts[i].ok

\* the first attempt that gets a response, 0 if none does
FirstResponse(env) ==
    IF AllAttemptsFailed(env) THEN 0
    ELSE CHOOSE i \in 1..HttpxAttempts :
            env.attempts[i].ok /\ \A j \in 1..(i - 1) : ~env.attempts[j].ok

\* s occurs in t as a run of consecutive pieces
Contains(t, s) ==
    \E i \in 0..(Len(t) - Len(s)) : SubSeq(t, i + 1, i + Len(s)) = s

\* C5: when all 3 attempts fail and the external client fails too (absent, non-zero
\* exit, or status output 000), the probe reports fail.
C5_FallbackFailureIsFail ==
    (p_out # None /\ AllAttemptsFailed(p_env) /\ CurlFailed(p_env.curl)) =>
        p_out[1].result.status = "fail"

\* C6: at most 3 attempts; the first response ends the probe with ok and its status
\* code, with no further attempt and no fallback; the fallback runs only after
\* exactly 3 failed attempts and at most once.
C6_RetryThenFallback ==
    p_out # None =>
        LET o == p_out[1]
            k == FirstResponse(p_env)
        IN  /\ o.gets <= 3
            /\ o.curls <= 1
            /\ k > 0 => /\ o.gets = k
                        /\ o.curls = 0
                        /\ o.result = [status |-> "ok", code |-> p_env.attempts[k].code]
            /\ o.curls = 1 => (o.gets = 3 /\ k = 0)
            /\ k = 0 => o.curls = 1

\* the second attempt got a response after the first failed
C6_Witness ==
    /\ p_out # None
    /\ ~p_env.attempts[1].ok
    /\ p_env.attempts[2].ok
    /\ p_out[1].gets = 2
    /\ p_out[1].curls = 0
    /\ p_out[1].result.status = "ok"

\* C7: after 3 failed attempts a fallback that succeeds with 200 gives ok with code
\* 200, and a fallback that fails gives fail with an error text that contains the last
\* in-process error and the fallback error.
C7_FallbackResult ==
    (p_out # None /\ AllAttemptsFailed(p_env)) =>
        LET curl == p_env.curl
            r == p_out[1].result
        IN  /\ (curl.kind = "ran" /\ curl.rc = 0 /\ curl.stdout = <<"2", "0", "0">>) =>
                   r = [status |-> "ok", code |-> 200]
            /\ CurlFailed(curl) =>
                   /\ r.status = "fail"
                   /\ Contains(r.error, <<p_env.attempts[HttpxAttempts].err>>)
                   /\ Contains(r.error, run_curl_check(curl).error)

(***************************************************************************)
(* Properties of the sweeps, continued                                     *)
(***************************************************************************)
\* what probing the domain of an iteration returns for a scheme
OwnResult(e, c) == check_http_https(e.world).results[c]

\* C11: for each of the schemes HTTP and HTTPS that is tracked for a domain, the sweep
\* adds one problem of the scheme if and only if the probe of the domain returns
\* status "fail" for the scheme; a scheme whose result is "ok" gets none.
C11_ProblemIffSchemeFails ==
    (ev # None /\ ev[1].job = "http" /\ ev[1].settings # None) =>
        \A c \in {"http", "https"} :
            Effective(ev[1].row, ev[1].settings[1], TrackField(c)) =>
                CountOf(ev[1].problems, c) =
                    IF OwnResult(ev[1], c).status = "fail" THEN 1 ELSE 0

\* C12: when the owner of a domain has no settings record, the sweep creates one with
\* the defaults, evaluates the domain without an exception and sends no error
\* message.
C12_MissingSettingsCreated ==
    (ev # None /\ ev[1].settings = None) =>
        /\ user_settings[ev[1].row.user_id] = Some(DefaultSettings(ev[1].row.user_id))
        /\ ev[1].exc = None
        /\ \A i \in 1..Len(ev[1].sends) : ev[1].sends[i].call.text.kind # "error"

\* C15: no failure inside a sweep ends it before its last domain: a sweep that is over
\* has gone through every row it read.
C15_SweepNeverEndsEarly ==
    pc = "done" => ~(idx < Len(rows))

\* C19: no step of a sweep adds, removes or changes a domain record, and none removes a
\* settings record.
C19_SweepWritesNothing ==
    [][ /\ domains' = domains
        /\ \A u \in Users : user_settings[u] # None => user_settings'[u] # None ]_vars

\* a sweep went through a full table and its last iteration, of a domain whose owner
\* has a settings record, sent a message
C19_Witness ==
    /\ pc = "done"
    /\ Len(rows) = MaxDomains
    /\ idx > 1
    /\ domains = rows
    /\ ev # None
    /\ ev[1].sends # <<>>
    /\ user_settings[ev[1].row.user_id] # None

(***************************************************************************)
(* bot/main.py: the commands that write the table "domains"                *)
(*                                                                         *)
(* The dispatcher runs each update in a task of its own, so a handler can  *)
(* be overtaken at each of its awaits.  A slot of hs is one such task: it  *)
(* holds the handler's position and locals, and the reply of the handler   *)
(* that ran in it last.                                                    *)
(***************************************************************************)
MaxHandlers == 2
Slots == 1..MaxHandlers

\* config.ALLOWED_USER_IDS, and the ids updates come from (3 is not allowed)
ALLOWED_USER_IDS == Users
Senders == Users \cup {3}

is_authorized(user_id) == user_id \in ALLOWED_USER_IDS

\* the arguments typed after a command, and the characters each is made of
Args == {"a.com", "A.COM", "-a.com"}

ArgChars(a) ==
    CASE a = "a.com" -> <<"a", ".", "c", "o", "m">>
      [] a = "A.COM" -> <<"A", ".", "C", "O", "M">>
      [] a = "-a.com" -> <<"-", "a", ".", "c", "o", "m">>

FromChars(chars) == CHOOSE a \in Args : ArgChars(a) = chars

LowerLetters == {"a", "c", "m", "o"}
UpperLetters == {"A", "C", "M", "O"}

LowerOf(c) ==
    CASE c = "A" -> "a"
      [] c = "C" -> "c"
      [] c = "M" -> "m"
      [] c = "O" -> "o"
      [] OTHER -> c

\* str.lower
lower(chars) == [i \in 1..Len(chars) |-> LowerOf(chars[i])]

\* ^(?!-)[A-Za-z0-9-]{1,63}(?<!-)\.[A-Za-z]{2,6}$ matched against the lowered name
is_valid_domain(chars) ==
    LET t == lower(strip(chars))
        Letters == LowerLetters \cup UpperLetters
        LabelChars == Letters \cup DigitChars \cup {"-"}
    IN  \E k \in 1..Len(t) :
            LET label == SubSeq(t, 1, k - 1)
                tld == SubSeq(t, k + 1, Len(t))
            IN  /\ t[k] = "."
                /\ Len(label) \in 1..63
                /\ \A i \in 1..Len(label) : label[i] \in LabelChars
                /\ label[1] # "-"
                /\ label[Len(label)] # "-"
                /\ Len(tld) \in 2..6
                /\ \A i \in 1..Len(tld) : tld[i] \in Letters

\* parts[1].strip().lower()
DomainArg(parts) == FromChars(lower(strip(ArgChars(parts[2]))))

\* message.text.strip().split() of the messages a command gets
Messages(cmd) == {<<cmd>>} \cup { <<cmd, a>> : a \in Args }

\* select ... where name == n and user_id == u
SelectDomain(table, n, u) ==
    { i \in 1..Len(table) : table[i].name = n /\ table[i].user_id = u }

\* the slip of a table "domains" without its unique constraint
insert_domain_unconstrained(table, row) ==
    [ok |-> TRUE, table |-> Append(table, row)]

\* session.add(Domain(...)) and commit: the INSERT is refused with IntegrityError when
\* uix_user_domain (name, user_id) already has the pair
insert_domain(table, row) ==
    IF SelectDomain(table, row.name, row.user_id) # {}
    THEN [ok |-> FALSE, table |-> table]
    ELSE [ok |-> TRUE, table |-> Append(table, row)]

\* delete ... where name == n and user_id == u
delete_domain(table, n, u) ==
    SelectSeq(table, LAMBDA r : ~(r.name = n /\ r.user_id = u))

IdleHandler ==
    [pc |-> "idle", kind |-> "", user |-> 0, name |-> "", field |-> "", seen |-> None,
     reply |-> ""]

\* what a handler leaves alone: the jobs and the probes
HandlerFrame ==
    UNCHANGED <<pc, job, rows, idx, http_result, ev, outcome, probe_vars, clock, inflight>>

\* the handler of slot s returns (or its exception reaches the dispatcher)
Finish(s, reply) ==
    hs' = [hs EXCEPT ![s] = [IdleHandler EXCEPT !.reply = reply]]

\* the handler of slot s stops at an await with its locals
Await(s, at, kind, u, n, field, seen) ==
    hs' = [hs EXCEPT ![s] = [pc |-> at, kind |-> kind, user |-> u, name |-> n,
                             field |-> field, seen |-> seen, reply |-> ""]]

\* add_domain_handler up to the answer of its select
AddBegin(s, u, parts) ==
    /\ hs[s].pc = "idle"
    /\ IF ~is_authorized(u) THEN Finish(s, "no access")
       ELSE IF Len(parts) # 2 THEN Finish(s, "usage")
       ELSE IF ~is_valid_domain(ArgChars(parts[2])) THEN Finish(s, "not a valid domain")
       ELSE IF SelectDomain(domains, DomainArg(parts), u) # {}
            THEN Finish(s, "already monitored")
            ELSE Await(s, "insert", "add", u, DomainArg(parts), "", None)
    /\ UNCHANGED <<domains, user_settings>>
    /\ HandlerFrame

\* add_domain_handler from session.add to its end
AddCommit(s) ==
    /\ hs[s].pc = "insert"
    /\ hs[s].kind = "add"
    /\ LET ins == insert_domain(domains, NewDomain(hs[s].name, hs[s].user)) IN
       /\ domains' = ins.table
       /\ Finish(s, IF ins.ok THEN "added" ELSE "IntegrityError")
    /\ UNCHANGED user_settings
    /\ HandlerFrame

\* remove_domain_handler up to the answer of its select
RemoveBegin(s, u, parts) ==
    /\ hs[s].pc = "idle"
    /\ IF ~is_authorized(u) THEN Finish(s, "no access")
       ELSE IF Len(parts) # 2 THEN Finish(s, "usage")
       ELSE IF SelectDomain(domains, DomainArg(parts), u) = {}
            THEN Finish(s, "not in your list")
            ELSE Await(s, "delete", "remove", u, DomainArg(parts), "", None)
    /\ UNCHANGED <<domains, user_settings>>
    /\ HandlerFrame

\* remove_domain_handler from its delete to its end
RemoveCommit(s) ==
    /\ hs[s].pc = "delete"
    /\ domains' = delete_domain(domains, hs[s].name, hs[s].user)
    /\ Finish(s, "removed")
    /\ UNCHANGED user_settings
    /\ HandlerFrame

\* no job is running and no probe is being made while the handlers are looked at
JobsIdle ==
    /\ pc = "idle"
    /\ job = "none"
    /\ rows = <<>>
    /\ idx = 1
    /\ http_result = None
    /\ ev = None
    /\ outcome = "none"
    /\ ProbeIdle
    /\ clock = None
    /\ inflight = {}

StoreInit ==
    /\ JobsIdle
    /\ domains = <<>>
    /\ user_settings = [u \in Senders |-> None]
    /\ hs = [s \in Slots |-> IdleHandler]

StoreNext ==
    \/ \E s \in Slots, u \in Senders, parts \in Messages("/add") : AddBegin(s, u, parts)
    \/ \E s \in Slots : AddCommit(s)
    \/ \E s \in Slots, u \in Senders, parts \in Messages("/remove") :
           RemoveBegin(s, u, parts)
    \/ \E s \in Slots : RemoveCommit(s)

SpecStore == StoreInit /\ [][StoreNext]_vars

\* C20: however /add and /remove of any users interleave, the table holds at most one
\* row per (name, user_id), and a step of an /add for a pair the table already holds
\* leaves the table as it is.
UniquePairs(table) ==
    \A i, j \in 1..Len(table) :
        (table[i].name = table[j].name /\ table[i].user_id = table[j].user_id) => i = j

C20_OneRowPerNameAndOwner ==
    /\ [](UniquePairs(domains))
    /\ [][ \A s \in Slots :
              ((hs[s].kind = "add" /\ SelectDomain(domains, hs[s].name, hs[s].user) # {})
               \/ (hs[s].pc = "idle" /\ hs'[s].reply = "already monitored"))
              /\ hs'[s] # hs[s]
              => domains' = domains ]_vars

\* two /add for one pair were both past their select when the first committed; the
\* second was refused and one row is held
C20_Witness ==
    /\ Len(domains) = 1
    /\ \E s \in Slots : hs[s].reply = "IntegrityError"
    /\ \E s \in Slots : hs[s].reply = "added"

(***************************************************************************)
(* bot/main.py, bot/handlers/settings.py: the handlers that get the        *)
(* settings record of a user or create it                                  *)
(***************************************************************************)
\* the settings a toggle button names
SettingNames == {"track_http"}

\* session.add(UserSettings(user_id=u)) and commit: user_id is the primary key, so the
\* INSERT is refused with IntegrityError when the key has a row
insert_settings(table, u) ==
    IF table[u] # None
    THEN [ok |-> FALSE, table |-> table]
    ELSE [ok |-> TRUE, table |-> [table EXCEPT ![u] = Some(DefaultSettings(u))]]

\* perform_check up to the answer of session.get, entered from /check ("message") or
\* from a check button ("callback"); what follows the settings is the report
CheckBegin(s, u, via, parts) ==
    /\ hs[s].pc = "idle"
    /\ IF via = "message" /\ ~is_authorized(u) THEN Finish(s, "no access")
       ELSE IF via = "message" /\ Len(parts) # 2 THEN Finish(s, "usage")
       ELSE IF Len(parts) # 2 \/ SelectDomain(domains, DomainArg(parts), u) = {}
            THEN Finish(s, "domain not found")
       ELSE IF user_settings[u] # None THEN Finish(s, "check results")
       ELSE Await(s, "insert", "check", u, DomainArg(parts), "", None)
    /\ UNCHANGED <<domains, user_settings>>
    /\ HandlerFrame

\* cmd_settings up to the answer of its select or of session.get
SettingsBegin(s, u, parts) ==
    /\ hs[s].pc = "idle"
    /\ IF ~is_authorized(u) THEN Finish(s, "no access")
       ELSE IF Len(parts) = 2
            THEN IF SelectDomain(domains, DomainArg(parts), u) = {}
                 THEN Finish(s, "not in your list")
                 ELSE Finish(s, "domain settings")
       ELSE IF user_settings[u] # None THEN Finish(s, "global settings")
       ELSE Await(s, "insert", "settings", u, "", "", None)
    /\ UNCHANGED <<domains, user_settings>>
    /\ HandlerFrame

\* toggle_setting_handler, scope "global", up to the answer of session.get
ToggleBegin(s, u, setting_name) ==
    /\ hs[s].pc = "idle"
    /\ IF user_settings[u] # None
       THEN Await(s, "update", "toggle", u, "", setting_name, user_settings[u])
       ELSE Await(s, "insert", "toggle", u, "", setting_name, None)
    /\ UNCHANGED <<domains, user_settings>>
    /\ HandlerFrame

\* the commit of the record a handler has just made, and what the handler does next
SettingsCommit(s) ==
    /\ hs[s].pc = "insert"
    /\ hs[s].kind \in {"check", "settings", "toggle"}
    /\ LET h == hs[s]
           ins == insert_settings(user_settings, h.user)
       IN  /\ user_settings' = ins.table
           /\ IF ~ins.ok THEN Finish(s, "IntegrityError")
              ELSE IF h.kind = "check" THEN Finish(s, "check results")
              ELSE IF h.kind = "settings" THEN Finish(s, "global settings")
              ELSE Await(s, "update", "toggle", h.user, "", h.field,
                         Some(DefaultSettings(h.user)))
    /\ UNCHANGED domains
    /\ HandlerFrame

\* toggle_setting_handler from getattr to its end: the UPDATE writes the negation of
\* the value the handler holds
ToggleCommit(s) ==
    /\ hs[s].pc = "update"
    /\ LET h == hs[s]
           current == h.seen[1][h.field]
       IN  user_settings' =
               [user_settings EXCEPT ![h.user] =
                   IF @ = None THEN @ ELSE Some([@[1] EXCEPT ![h.field] = ~current])]
    /\ Finish(s, "toggled")
    /\ UNCHANGED domains
    /\ HandlerFrame

\* every user monitors a.com and nobody has a settings record yet
SettingsInit ==
    /\ JobsIdle
    /\ domains = <<NewDomain("a.com", 1), NewDomain("a.com", 2)>>
    /\ user_settings = [u \in Senders |-> None]
    /\ hs = [s \in Slots |-> IdleHandler]

SettingsNext ==
    \/ \E s \in Slots, u \in Senders, via \in {"message", "callback"},
          parts \in Messages("/check") : CheckBegin(s, u, via, parts)
    \/ \E s \in Slots, u \in Senders, parts \in Messages("/settings") :
           SettingsBegin(s, u, parts)
    \/ \E s \in Slots, u \in Senders, n \in SettingNames : ToggleBegin(s, u, n)
    \/ \E s \in Slots : SettingsCommit(s)
    \/ \E s \in Slots : ToggleCommit(s)

SpecSettings == SettingsInit /\ [][SettingsNext]_vars

\* C13: however the handlers that find no settings record for a user interleave, none
\* of them fails, and a handler that is past its get-or-create has a record to work on.
C13_GetOrCreateNeverFails ==
    \A s \in Slots :
        /\ hs[s].reply # "IntegrityError"
        /\ hs[s].pc = "update" => user_settings[hs[s].user] # None

(***************************************************************************)
(* bot/main.py: the interval job                                           *)
(*                                                                         *)
(* main() registers check_all_domains as an interval job and starts the    *)
(* scheduler.  clock holds the minutes since then, the next run time, the  *)
(* start times of the instances of the job that are running, and, for each *)
(* run time that fell due, what the scheduler did.                         *)
(***************************************************************************)
MaxClock == 30

\* scheduler.add_job(check_all_domains, "interval", minutes=5): no max_instances is
\* passed, so one instance of the job may run at a time
IntervalMinutes == 5
MaxInstances == 1

\* the slip of a job that is allowed any number of instances
can_start_any(running) == TRUE

\* whether a run that falls due is submitted
can_start(running) == Cardinality(running) < MaxInstances

TickFrame ==
    UNCHANGED <<sweep_vars, probe_vars, hs, inflight>>

TickInit ==
    /\ SweepIdle
    /\ ProbeIdle
    /\ hs = <<>>
    /\ inflight = {}
    /\ clock = Some([now |-> 0, next_run |-> IntervalMinutes, running |-> {}, log |-> <<>>])

\* a minute passes in which no run falls due
Advance ==
    /\ clock[1].now < clock[1].next_run
    /\ clock[1].now < MaxClock
    /\ clock' = Some([clock[1] EXCEPT !.now = @ + 1])
    /\ TickFrame

\* the run time falls due: the job is started, or the run is skipped because the
\* instances allowed are running
Tick ==
    /\ clock[1].now = clock[1].next_run
    /\ LET c == clock[1]
           go == can_start(c.running)
       IN  clock' = Some([c EXCEPT
               !.next_run = @ + IntervalMinutes,
               !.running = IF go THEN @ \cup {c.now} ELSE @,
               !.log = Append(@, [at |-> c.now,
                                  did |-> IF go THEN "started" ELSE "skipped",
                                  idle |-> c.running = {}])])
    /\ TickFrame

\* check_all_domains returns, or raises: the instance started at t is over
JobEnds(t) ==
    /\ t \in clock[1].running
    /\ clock' = Some([clock[1] EXCEPT !.running = @ \ {t}])
    /\ TickFrame

TickNext ==
    \/ Advance
    \/ Tick
    \/ \E t \in 0..MaxClock : JobEnds(t)

SpecTicks == TickInit /\ [][TickNext]_vars

\* C14: a run falls due every five minutes; a run that falls due while no sweep is
\* running starts one, a run that falls due while a sweep is running starts none, and
\* two sweeps never run at the same time.
C14_NoOverlappingSweeps ==
    clock # None =>
        LET c == clock[1] IN
        /\ Cardinality(c.running) <= 1
        /\ \A i \in 1..Len(c.log) :
               /\ c.log[i].at = i * 5
               /\ c.log[i].did = "started" <=> c.log[i].idle

\* a sweep outlasted the interval, the run that fell due meanwhile was skipped, and a
\* later run started the next sweep
C14_Witness ==
    /\ clock # None
    /\ \E i, j \in 1..Len(clock[1].log) :
           /\ i < j
           /\ clock[1].log[i].did = "skipped"
           /\ clock[1].log[j].did = "started"

(***************************************************************************)
(* bot/scheduler.py: the loop of a sweep, iteration by iteration           *)
(*                                                                         *)
(* An iteration begins when the loop takes its row and ends when the last  *)
(* await of its body is over; inflight holds the rows taken and not done.  *)
(***************************************************************************)
\* the slip of a loop that hands each row to a task of its own
may_begin_any(working) == TRUE

\* `for row in domains:` with the body awaited in place: the loop takes the next row
\* when the body of the row before is over
may_begin(working) == working = {}

LoopFrame ==
    UNCHANGED <<domains, user_settings, http_result, ev, probe_vars, hs, clock>>

\* the job function reads the table
LoopStart(j) ==
    /\ pc \in {"idle", "done"}
    /\ inflight = {}
    /\ job' = j
    /\ rows' = domains
    /\ idx' = 1
    /\ pc' = IF domains = <<>> THEN "done" ELSE "running"
    /\ outcome' = IF domains = <<>> THEN "returned" ELSE "none"
    /\ UNCHANGED inflight
    /\ LoopFrame

\* the loop takes row idx
LoopBegin ==
    /\ pc = "running"
    /\ idx <= Len(rows)
    /\ may_begin(inflight)
    /\ inflight' = inflight \cup {idx}
    /\ idx' = idx + 1
    /\ UNCHANGED <<pc, job, rows, outcome>>
    /\ LoopFrame

\* the body of row i is over
LoopEnd(i) ==
    /\ pc = "running"
    /\ i \in inflight
    /\ inflight' = inflight \ {i}
    /\ pc' = IF idx > Len(rows) /\ inflight' = {} THEN "done" ELSE "running"
    /\ outcome' = IF idx > Len(rows) /\ inflight' = {} THEN "returned" ELSE "none"
    /\ UNCHANGED <<job, rows, idx>>
    /\ LoopFrame

LoopNext ==
    \/ LoopStart("http")
    \/ LoopStart("expiry")
    \/ LoopBegin
    \/ \E i \in 1..MaxDomains : LoopEnd(i)

SpecLoop == Init /\ [][LoopNext]_vars

\* C18: while a sweep runs, the number of domains being evaluated at the same time
\* never exceeds a limit that does not depend on the number of domains: at most one
\* iteration of the loop is in progress.
C18_EvaluationsBounded ==
    Cardinality(inflight) <= 1

\* the last row of a full table is being evaluated after the rows before it are done
C18_Witness ==
    /\ pc = "running"
    /\ Len(rows) = MaxDomains
    /\ inflight = {Len(rows)}

(***************************************************************************)
(* bot/utils.py: _check_domain_expiry_sync                                 *)
(*                                                                         *)
(* A string is the tuple of its characters.  The output of whois is a      *)
(* tuple of lines; a line is the words of its label, which a colon         *)
(* follows, and the characters after the colon.                            *)
(***************************************************************************)
MaxLines == 2

\* str.split(sep) for a separator of one character
RECURSIVE Split(_, _)
Split(s, sep) ==
    IF \A i \in 1..Len(s) : s[i] # sep THEN <<s>>
    ELSE LET k == CHOOSE i \in 1..Len(s) : s[i] = sep /\ \A j \in 1..(i - 1) : s[j] # sep
         IN  <<SubSeq(s, 1, k - 1)>> \o Split(SubSeq(s, k + 1, Len(s)), sep)

\* a number as w digits, padded with zeros on the left
RECURSIVE Pad(_, _)
Pad(n, w) ==
    IF w = 0 THEN <<>> ELSE Pad(n \div 10, w - 1) \o <<DigitChars[(n % 10) + 1]>>

\* the fields of strptime: each is None when the characters are not of the directive
NumberField(f, widths, lo, hi) ==
    IF Len(f) \in widths /\ isdigit(f) /\ int(f) \in lo..hi THEN Some(int(f)) ELSE None

YearField(f) == NumberField(f, {4}, 1, 9999)
MonthField(f) == NumberField(f, {1, 2}, 1, 12)
DayField(f) == NumberField(f, {1, 2}, 1, 31)
HourField(f) == NumberField(f, {1, 2}, 0, 23)
MinuteField(f) == NumberField(f, {1, 2}, 0, 59)
SecondField(f) == NumberField(f, {1, 2}, 0, 59)

\* %b, for the abbreviations as they are usually written
MonthAbbr ==
    << <<"J", "a", "n">>, <<"F", "e", "b">>, <<"M", "a", "r">>, <<"A", "p", "r">>,
       <<"M", "a", "y">>, <<"J", "u", "n">>, <<"J", "u", "l">>, <<"A", "u", "g">>,
       <<"S", "e", "p">>, <<"O", "c", "t">>, <<"N", "o", "v">>, <<"D", "e", "c">> >>

MonthNameField(f) ==
    IF \E m \in 1..12 : MonthAbbr[m] = f
    THEN Some(CHOOSE m \in 1..12 : MonthAbbr[m] = f) ELSE None

IsLeap(y) == (y % 4 = 0 /\ y % 100 # 0) \/ y % 400 = 0

DaysInMonth(y, m) ==
    IF m = 2 THEN (IF IsLeap(y) THEN 29 ELSE 28)
    ELSE IF m \in {4, 6, 9, 11} THEN 30 ELSE 31

RECURSIVE DaysBeforeMonth(_, _)
DaysBeforeMonth(y, m) ==
    IF m = 1 THEN 0 ELSE DaysBeforeMonth(y, m - 1) + DaysInMonth(y, m - 1)

\* date.toordinal
Ordinal(y, m, d) ==
    LET p == y - 1 IN
    p * 365 + (p \div 4) - (p \div 100) + (p \div 400) + DaysBeforeMonth(y, m) + d

\* datetime(y, m, d, H, M, S) of the fields, None when a field is missing or the day
\* is not of the month (ValueError)
MakeDatetime(y, m, d, H, M, S) ==
    IF y = None \/ m = None \/ d = None \/ H = None \/ M = None \/ S = None THEN None
    ELSE IF d[1] > DaysInMonth(y[1], m[1]) THEN None
    ELSE Some([year |-> y[1], month |-> m[1], day |-> d[1],
               seconds |-> (H[1] * 60 + M[1]) * 60 + S[1]])

Formats == <<"%Y-%m-%d", "%d-%b-%Y", "%Y.%m.%d", "%Y-%m-%dT%H:%M:%SZ">>

Midnight == Some(0)

\* datetime.strptime(date_str, fmt): None stands for ValueError
strptime(date_str, fmt) ==
    CASE fmt = "%Y-%m-%d" ->
            LET f == Split(date_str, "-") IN
            IF Len(f) # 3 THEN None
            ELSE MakeDatetime(YearField(f[1]), MonthField(f[2]), DayField(f[3]),
                              Midnight, Midnight, Midnight)
      [] fmt = "%d-%b-%Y" ->
            LET f == Split(date_str, "-") IN
            IF Len(f) # 3 THEN None
            ELSE MakeDatetime(YearField(f[3]), MonthNameField(f[2]), DayField(f[1]),
                              Midnight, Midnight, Midnight)
      [] fmt = "%Y.%m.%d" ->
            LET f == Split(date_str, ".") IN
            IF Len(f) # 3 THEN None
            ELSE MakeDatetime(YearField(f[1]), MonthField(f[2]), DayField(f[3]),
                              Midnight, Midnight, Midnight)
      [] fmt = "%Y-%m-%dT%H:%M:%SZ" ->
            LET halves == Split(date_str, "T") IN
            IF Len(halves) # 2 THEN None
            ELSE LET f == Split(halves[1], "-")
                     clock_part == halves[2]
                     t == Split(SubSeq(clock_part, 1, Len(clock_part) - 1), ":")
                 IN  IF Len(f) # 3 \/ Len(clock_part) = 0 THEN None
                     ELSE IF clock_part[Len(clock_part)] # "Z" \/ Len(t) # 3 THEN None
                     ELSE MakeDatetime(YearField(f[1]), MonthField(f[2]), DayField(f[3]),
                                       HourField(t[1]), MinuteField(t[2]),
                                       SecondField(t[3]))
      [] fmt = "%b %d %H:%M:%S %Y %Z" ->
            LET f == SelectSeq(Split(date_str, " "), LAMBDA x : x # <<>>) IN
            IF Len(f) # 5 \/ date_str[1] = " " \/ date_str[Len(date_str)] = " " THEN None
            ELSE LET t == Split(f[3], ":") IN
                 IF Len(t) # 3 \/ f[5] \notin {<<"G", "M", "T">>, <<"U", "T", "C">>}
                 THEN None
                 ELSE MakeDatetime(YearField(f[4]), MonthNameField(f[1]), DayField(f[2]),
                                   HourField(t[1]), MinuteField(t[2]), SecondField(t[3]))

\* expires_at.strftime("%Y-%m-%d")
strftime(dt) ==
    Pad(dt.year, 4) \o <<"-">> \o Pad(dt.month, 2) \o <<"-">> \o Pad(dt.day, 2)

\* (expires_at - now).days: the whole days of the difference, rounded down
DaysBetween(expires_at, now) ==
    LET days(dt) == Ordinal(dt.year, dt.month, dt.day)
    IN  days(expires_at) - days(now)
            - (IF expires_at.seconds < now.seconds THEN 1 ELSE 0)

Patterns ==
    << <<"Expiry", "Date">>, <<"Expiration", "Date">>, <<"Registry", "Expiry", "Date">>,
       <<"paid-till">> >>

\* the characters of a line, with the words of the label as they stand
LineText(line) == line.label \o <<":">> \o line.value

\* whether the text of the pattern, which ends with the colon, occurs in the line
LabelOccurs(pattern, line) ==
    /\ Len(pattern) <= Len(line.label)
    /\ SubSeq(line.label, Len(line.label) - Len(pattern) + 1, Len(line.label)) = pattern

\* group 1 of `<label>:\s?(.+)` at an occurrence of the label in line i: \s? takes
\* one whitespace character when something is left for (.+), which stops at the end
\* of the line; after a label that ends its line \s? takes the newline and (.+) the
\* next line
GroupAt(output, i) ==
    LET v == output[i].value IN
    IF v = <<>>
    THEN (IF i < Len(output) THEN Some(LineText(output[i + 1])) ELSE None)
    ELSE IF v[1] \in Whitespace /\ Len(v) > 1 THEN Some(Tail(v)) ELSE Some(v)

\* re.search(pattern, output): group 1 of the leftmost match, None without a match
search(pattern, output) ==
    LET hits == { i \in 1..Len(output) :
                    LabelOccurs(pattern, output[i]) /\ GroupAt(output, i) # None }
    IN  IF hits = {} THEN None
        ELSE GroupAt(output, CHOOSE i \in hits : \A j \in hits : i <= j)

\* the loop over the formats: the first format that parses, None when none does
RECURSIVE try_formats(_, _)
try_formats(date_str, k) ==
    IF k > Len(Formats) THEN None
    ELSE LET expires_at == strptime(date_str, Formats[k]) IN
         IF expires_at # None THEN expires_at ELSE try_formats(date_str, k + 1)

\* the slip of giving up at the first label that occurs
RECURSIVE try_patterns_stop(_, _)
try_patterns_stop(output, p) ==
    IF p > Len(Patterns) THEN None
    ELSE LET match == search(Patterns[p], output) IN
         IF match = None THEN try_patterns_stop(output, p + 1)
         ELSE try_formats(strip(match[1]), 1)

\* the loop over the patterns: a label that occurs but whose date no format parses
\* is followed by the next pattern
RECURSIVE try_patterns(_, _)
try_patterns(output, p) ==
    IF p > Len(Patterns) THEN None
    ELSE LET match == search(Patterns[p], output) IN
         IF match = None THEN try_patterns(output, p + 1)
         ELSE LET expires_at == try_formats(strip(match[1]), 1) IN
              IF expires_at # None THEN expires_at ELSE try_patterns(output, p + 1)

\* the body of the try: what it returns, or the exception that leaves it
whois_try(run, now) ==
    IF run.kind = "raises" THEN [raised |-> TRUE, exc |-> run.exc]
    ELSE IF run.returncode # 0
    THEN [raised |-> TRUE, exc |-> [type |-> "RuntimeError", msg |-> "WHOIS command failed"]]
    ELSE LET expires_at == try_patterns(run.stdout, 1) IN
         IF expires_at = None
         THEN [raised |-> TRUE,
               exc |-> [type |-> "ValueError", msg |-> "Could not parse expiration date."]]
         ELSE [raised |-> FALSE,
               value |-> [valid |-> TRUE, expires_at |-> strftime(expires_at[1]),
                          days_left |-> DaysBetween(expires_at[1], now)]]

\* the slip of `except ValueError`
caught_value_error(exc) == exc.type = "ValueError"

\* `except Exception`: every exception the body raises is an Exception
caught(exc) ==
    exc.type \in {"ValueError", "RuntimeError", "FileNotFoundError", "TimeoutExpired"}

\* _check_domain_expiry_sync: what the caller gets, a result or the exception
check_domain_expiry_sync(run, now) ==
    LET t == whois_try(run, now) IN
    IF ~t.raised THEN [escaped |-> FALSE, value |-> t.value]
    ELSE IF caught(t.exc)
    THEN [escaped |-> FALSE,
          value |-> [valid |-> FALSE, error |-> <<"WHOIS error: ", t.exc.msg>>]]
    ELSE [escaped |-> TRUE, exc |-> t.exc]

(***************************************************************************)
(* What whois may answer                                                   *)
(***************************************************************************)
RegistryExpiryLine ==
    [label |-> <<"Registry", "Expiry", "Date">>,
     value |-> <<" ", "2", "0", "3", "0", "-", "0", "1", "-", "0", "1", "T", "0", "0", ":", "0", "0", ":", "0", "0", "Z">>]

ExpiryLine ==
    [label |-> <<"Expiry", "Date">>,
     value |-> <<" ", "2", "0", "3", "0", "-", "1", "-", "5", "\r">>]

ExpirationLine ==
    [label |-> <<"Expiration", "Date">>,
     value |-> <<" ", "0", "9", "-", "F", "e", "b", "-", "2", "0", "3", "1">>]

PaidTillLine ==
    [label |-> <<"paid-till">>,
     value |-> <<" ", "2", "0", "2", "9", ".", "1", "2", ".", "3", "0">>]

ExpirySoonLine ==
    [label |-> <<"Expiry", "Date">>,
     value |-> <<" ", "s", "o", "o", "n">>]

DomainNameLine ==
    [label |-> <<"Domain", "Name">>,
     value |-> <<" ", "a", ".", "c", "o", "m">>]

ExpirationBadDayLine ==
    [label |-> <<"Expiration", "Date">>,
     value |-> <<" ", "2", "0", "3", "0", "-", "0", "2", "-", "3", "0">>]

ExpiryEmptyLine ==
    [label |-> <<"Expiry", "Date">>,
     value |-> <<>>]

WhoisLines ==
    {RegistryExpiryLine, ExpiryLine, ExpirationLine, PaidTillLine, ExpirySoonLine,
     DomainNameLine, ExpirationBadDayLine, ExpiryEmptyLine}

RECURSIVE SeqsUpTo(_, _)
SeqsUpTo(S, n) ==
    IF n = 0 THEN {<<>>}
    ELSE LET shorter == SeqsUpTo(S, n - 1) IN
         shorter \cup { Append(q, x) : q \in shorter, x \in S }

WhoisOutputs == SeqsUpTo(WhoisLines, MaxLines)

\* subprocess.run(["whois", domain], ..., timeout=10): the command is missing, runs
\* out of time, or exits
WhoisRuns ==
    {[kind |-> "raises",
      exc |-> [type |-> "FileNotFoundError", msg |-> "No such file or directory: whois"]],
     [kind |-> "raises",
      exc |-> [type |-> "TimeoutExpired", msg |-> "timed out after 10 seconds"]]}
    \cup { [kind |-> "exited", returncode |-> 0, stdout |-> o] : o \in WhoisOutputs }
    \cup { [kind |-> "exited", returncode |-> 1, stdout |-> o] :
             o \in {<<>>, <<RegistryExpiryLine>>} }

\* datetime.utcnow()
Nows ==
    {[year |-> 2029, month |-> 12, day |-> 31, seconds |-> 0],
     [year |-> 2030, month |-> 1, day |-> 3, seconds |-> 43200]}

WhoisEnvs == [run : WhoisRuns, now : Nows]

WhoisInit ==
    /\ SweepIdle
    /\ OtherIdle
    /\ p_proto = "whois"
    /\ p_env \in WhoisEnvs
    /\ p_out = None

\* one call of _check_domain_expiry_sync
Lookup ==
    /\ p_out = None
    /\ p_out' = Some(check_domain_expiry_sync(p_env.run, p_env.now))
    /\ UNCHANGED <<p_proto, p_env>>
    /\ UNCHANGED <<sweep_vars, other_vars>>

\* the next call, with another answer of whois
NextLookup ==
    /\ p_out # None
    /\ p_env' \in WhoisEnvs
    /\ p_out' = None
    /\ UNCHANGED p_proto
    /\ UNCHANGED <<sweep_vars, other_vars>>

WhoisNext == Lookup \/ NextLookup

SpecWhois == WhoisInit /\ [][WhoisNext]_vars

(***************************************************************************)
(* Properties of the WHOIS lookup                                          *)
(***************************************************************************)
\* the answers of whois that carry no date the lookup can use
UndatedLines == {ExpirySoonLine, DomainNameLine, ExpirationBadDayLine, ExpiryEmptyLine}

WhoisFailure(run) ==
    \/ run.kind = "raises"
    \/ run.returncode # 0
    \/ \A i \in 1..Len(run.stdout) : run.stdout[i] = DomainNameLine
    \/ \A i \in 1..Len(run.stdout) : run.stdout[i] \in UndatedLines

\* C16: the WHOIS lookup never lets an exception out: a missing command, a timeout, a
\* non-zero exit status, an output without a label and a label whose date does not
\* parse each give valid = false with an error text.
C16_WhoisNeverRaises ==
    (p_proto = "whois" /\ p_out # None) =>
        /\ ~p_out[1].escaped
        /\ WhoisFailure(p_env.run) =>
               /\ p_out[1].value.valid = FALSE
               /\ p_out[1].value.error[1] = "WHOIS error: "
               /\ p_out[1].value.error[2] # ""

\* whois ran out of time and the lookup returned valid = false
C16_Witness ==
    /\ p_proto = "whois"
    /\ p_out # None
    /\ p_env.run.kind = "raises"
    /\ p_env.run.exc.type = "TimeoutExpired"
    /\ ~p_out[1].escaped
    /\ p_out[1].value.valid = FALSE

\* the date each line of the answers stands for, as YYYY-MM-DD
DateOf(line) ==
    CASE line = RegistryExpiryLine -> Some(<<"2", "0", "3", "0", "-", "0", "1", "-", "0", "1">>)
      [] line = ExpiryLine -> Some(<<"2", "0", "3", "0", "-", "0", "1", "-", "0", "5">>)
      [] line = ExpirationLine -> Some(<<"2", "0", "3", "1", "-", "0", "2", "-", "0", "9">>)
      [] line = PaidTillLine -> Some(<<"2", "0", "2", "9", "-", "1", "2", "-", "3", "0">>)
      [] OTHER -> None

\* the date the first occurrence of label p gives (a label at the very end of the
\* output, with nothing after it, is no occurrence)
LabelDate(p, output) ==
    LET occ == { i \in 1..Len(output) :
                   /\ LabelOccurs(Patterns[p], output[i])
                   /\ ~(output[i] = ExpiryEmptyLine /\ i = Len(output)) }
    IN  IF occ = {} THEN None
        ELSE LET i == CHOOSE k \in occ : \A j \in occ : k <= j IN
             IF output[i] = ExpiryEmptyLine THEN None ELSE DateOf(output[i])

\* C17: the labels Expiry Date, Expiration Date, Registry Expiry Date and paid-till
\* are tried in this order; the first of them whose date parses decides the result,
\* a label whose date does not parse does not stop the later ones, the line
\* "Registry Expiry Date: 2030-01-01T00:00:00Z" gives valid = true with expires_at
\* 2030-01-01, and an output without a label gives valid = false.
C17_FirstParsingLabelDecides ==
    (p_proto = "whois" /\ p_out # None /\ ~p_out[1].escaped /\ p_env.run.kind = "exited"
     /\ p_env.run.returncode = 0) =>
        LET output == p_env.run.stdout
            r == p_out[1].value
            dated == { p \in 1..4 : LabelDate(p, output) # None }
            first == CHOOSE p \in dated : \A q \in dated : p <= q
        IN  /\ Patterns = << <<"Expiry", "Date">>, <<"Expiration", "Date">>,
                             <<"Registry", "Expiry", "Date">>, <<"paid-till">> >>
            /\ IF dated = {} THEN ~r.valid
               ELSE r.valid /\ r.expires_at = LabelDate(first, output)[1]
            /\ output = <<RegistryExpiryLine>> =>
                   r.valid /\ r.expires_at = <<"2", "0", "3", "0", "-", "0", "1", "-", "0", "1">>
            /\ (\A i \in 1..Len(output) : output[i] = DomainNameLine) => ~r.valid

\* "Expiry Date: soon" did not parse and the paid-till line after it gave the date
C17_Witness ==
    /\ p_proto = "whois"
    /\ p_out # None
    /\ p_env.run.kind = "exited"
    /\ p_env.run.returncode = 0
    /\ p_env.run.stdout = <<ExpirySoonLine, PaidTillLine>>
    /\ ~p_out[1].escaped
    /\ p_out[1].value.valid
    /\ p_out[1].value.expires_at = <<"2", "0", "2", "9", "-", "1", "2", "-", "3", "0">>

(***************************************************************************)
(* Properties of the sweeps: the calls of the driver and the end of a      *)
(* sweep                                                                   *)
(***************************************************************************)
\* the calls of check_http_https an iteration made
DriverCalls(e) ==
    { i \in 1..Len(e.probes) : e.probes[i].driver = "check_http_https" }

\* C21: a domain for which HTTPS is tracked, with or without HTTP, gets exactly one
\* call of check_http_https in the sweep, made for that domain, and each of its
\* verdicts is read from the result of that call.
C21_DriverCalledOnce ==
    (ev # None /\ ev[1].job = "http" /\ ev[1].settings # None
     /\ Effective(ev[1].row, ev[1].settings[1], "track_https")) =>
        /\ Cardinality(DriverCalls(ev[1])) = 1
        /\ \A i \in DriverCalls(ev[1]) : ev[1].probes[i].domain = ev[1].row.name
        /\ \A i \in 1..Len(ev[1].verdicts) : ev[1].verdicts[i].of = ev[1].row.name

\* the rows a sweep has gone through
Visited ==
    IF rows = <<>> THEN 0
    ELSE IF outcome = "raised" THEN idx
    ELSE idx - 1

\* C22: a sweep that is over has gone through each row of the list it read, once.
C22_SweepVisitsEachRowOnce ==
    pc = "done" => Visited = Len(rows)

(***************************************************************************)
(* bot/utils.py: _check_ssl_sync                                           *)
(*                                                                         *)
(* The world of a call: what each connection attempt to port 443 would     *)
(* meet, in the order the attempts are made, how the handshake ends, the   *)
(* certificate the peer shows and the time.                                *)
(***************************************************************************)
\* ", ".join(parts)
RECURSIVE Join(_)
Join(parts) ==
    IF Len(parts) = 0 THEN <<>>
    ELSE IF Len(parts) = 1 THEN <<parts[1]>>
    ELSE <<parts[1], ", ">> \o Join(Tail(parts))

\* [x[0][1] for x in cert.get("issuer", [])]: the value of the first attribute of
\* each relative distinguished name
issuer_parts(cert) ==
    IF cert.issuer = None THEN <<>>
    ELSE [i \in 1..Len(cert.issuer[1]) |-> cert.issuer[1][i][1].value]

\* the body of the try: what it returns, or the exception that leaves it, and the
\* connections it opened
ssl_try(env) ==
    IF ~env.connect[1].ok
    THEN [raised |-> TRUE, exc |-> env.connect[1].exc, connects |-> 1]
    ELSE IF ~env.handshake.ok
    THEN [raised |-> TRUE, exc |-> env.handshake.exc, connects |-> 1]
    ELSE IF env.cert.notAfter = None
    THEN [raised |-> TRUE, exc |-> [type |-> "KeyError", msg |-> "'notAfter'"],
          connects |-> 1]
    ELSE LET expires_at == strptime(env.cert.notAfter[1], "%b %d %H:%M:%S %Y %Z") IN
         IF expires_at = None
         THEN [raised |-> TRUE,
               exc |-> [type |-> "ValueError",
                        msg |-> "time data does not match format '%b %d %H:%M:%S %Y %Z'"],
               connects |-> 1]
         ELSE [raised |-> FALSE,
               value |-> [valid |-> TRUE, expires_at |-> strftime(expires_at[1]),
                          days_left |-> DaysBetween(expires_at[1], env.now),
                          issuer |-> Join(issuer_parts(env.cert))],
               connects |-> 1]

\* the slip of `except OSError`: the errors of the socket and of the handshake only
ssl_caught_os_error(exc) ==
    exc.type \in {"ConnectionRefusedError", "TimeoutError", "SSLCertVerificationError"}

\* `except Exception`: every exception the body raises is an Exception
ssl_caught(exc) ==
    exc.type \in {"ConnectionRefusedError", "TimeoutError", "SSLCertVerificationError",
                  "KeyError", "ValueError"}

\* _check_ssl_sync: what the caller gets, a result or the exception
check_ssl_sync(env) ==
    LET t == ssl_try(env) IN
    IF ~t.raised THEN [escaped |-> FALSE, value |-> t.value, connects |-> t.connects]
    ELSE IF ssl_caught(t.exc)
    THEN [escaped |-> FALSE, value |-> [valid |-> FALSE, error |-> t.exc.msg],
          connects |-> t.connects]
    ELSE [escaped |-> TRUE, exc |-> t.exc, connects |-> t.connects]

Connected == [ok |-> TRUE]
Refused ==
    [ok |-> FALSE,
     exc |-> [type |-> "ConnectionRefusedError", msg |-> "[Errno 111] Connection refused"]]
ConnectTimedOut ==
    [ok |-> FALSE, exc |-> [type |-> "TimeoutError", msg |-> "timed out"]]

\* what a first and a second connection attempt would meet
ConnectAnswers ==
    {<<Connected, Connected>>, <<Refused, Connected>>, <<Refused, Refused>>,
     <<ConnectTimedOut, Connected>>}

HandshakeAnswers ==
    {[ok |-> TRUE],
     [ok |-> FALSE,
      exc |-> [type |-> "SSLCertVerificationError",
               msg |-> "certificate verify failed: certificate has expired"]]}

NotAfterJune == <<"J", "u", "n", " ", " ", "1", " ", "1", "2", ":", "0", "0", ":", "0", "0", " ", "2", "0", "3", "0", " ", "G", "M", "T">>
NotAfterDecember == <<"D", "e", "c", " ", "3", "1", " ", "2", "3", ":", "5", "9", ":", "5", "9", " ", "2", "0", "2", "9", " ", "G", "M", "T">>
NotAfterIso == <<"2", "0", "3", "0", "-", "0", "6", "-", "0", "1">>
NotAfterBadDay == <<"F", "e", "b", " ", "3", "0", " ", "0", "0", ":", "0", "0", ":", "0", "0", " ", "2", "0", "3", "0", " ", "G", "M", "T">>

IssuerLetsEncrypt ==
    << << [key |-> "countryName", value |-> "US"] >>,
       << [key |-> "organizationName", value |-> "Let's Encrypt"] >>,
       << [key |-> "commonName", value |-> "R3"] >> >>

IssuerTwoAttributes ==
    << << [key |-> "organizationName", value |-> "Example CA"],
          [key |-> "commonName", value |-> "Example Root"] >> >>

Certificates ==
    [notAfter : {None, Some(NotAfterJune), Some(NotAfterDecember), Some(NotAfterIso),
                 Some(NotAfterBadDay)},
     issuer : {None, Some(IssuerLetsEncrypt), Some(IssuerTwoAttributes)}]

SslEnvs ==
    [connect : ConnectAnswers, handshake : HandshakeAnswers, cert : Certificates,
     now : Nows]

SslInit ==
    /\ SweepIdle
    /\ OtherIdle
    /\ p_proto = "ssl"
    /\ p_env \in SslEnvs
    /\ p_out = None

\* one call of _check_ssl_sync
SslLookup ==
    /\ p_out = None
    /\ p_out' = Some(check_ssl_sync(p_env))
    /\ UNCHANGED <<p_proto, p_env>>
    /\ UNCHANGED <<sweep_vars, other_vars>>

\* the next call, in another world
NextSslLookup ==
    /\ p_out # None
    /\ p_env' \in SslEnvs
    /\ p_out' = None
    /\ UNCHANGED p_proto
    /\ UNCHANGED <<sweep_vars, other_vars>>

SslNext == SslLookup \/ NextSslLookup

SpecSsl == SslInit /\ [][SslNext]_vars

\* the date a notAfter of the certificates stands for, None for the ones that are
\* not of the format
SslDateOf(not_after) ==
    CASE not_after = Some(NotAfterJune) -> Some(<<"2", "0", "3", "0", "-", "0", "6", "-", "0", "1">>)
      [] not_after = Some(NotAfterDecember) -> Some(<<"2", "0", "2", "9", "-", "1", "2", "-", "3", "1">>)
      [] OTHER -> None

IssuerOf(issuer) ==
    CASE issuer = None -> <<>>
      [] issuer = Some(IssuerLetsEncrypt) -> <<"US", ", ", "Let's Encrypt", ", ", "R3">>
      [] issuer = Some(IssuerTwoAttributes) -> <<"Example CA">>

\* C23: a call of the certificate probe opens one connection, whatever a second
\* attempt would meet, and always returns: valid = true with issuer, expiry date and
\* days_left when the connection, the handshake and the parsing of notAfter succeed,
\* valid = false with the text of the error otherwise; no exception leaves it.
C23_SslOneAttemptNeverRaises ==
    (p_proto = "ssl" /\ p_out # None) =>
        LET r == p_out[1]
            e == p_env
        IN  /\ ~r.escaped
            /\ r.connects = 1
            /\ IF e.connect[1].ok /\ e.handshake.ok /\ SslDateOf(e.cert.notAfter) # None
               THEN /\ r.value.valid
                    /\ r.value.expires_at = SslDateOf(e.cert.notAfter)[1]
                    /\ r.value.issuer = IssuerOf(e.cert.issuer)
                    /\ r.value.days_left \in Int
               ELSE /\ ~r.value.valid
                    /\ r.value.error # ""
                    /\ ~e.connect[1].ok => r.value.error = e.connect[1].exc.msg

\* the connection was refused, a second attempt would have connected, and the probe
\* returned valid = false with the text of the refusal
C23_Witness ==
    /\ p_proto = "ssl"
    /\ p_out # None
    /\ p_env.connect = <<Refused, Connected>>
    /\ ~p_out[1].escaped
    /\ ~p_out[1].value.valid
    /\ p_out[1].value.error = "[Errno 111] Connection refused"

(***************************************************************************)
(* bot/main.py: the policy perform_check reports under                     *)
(***************************************************************************)
\* `a or b` of a nullable integer column and an integer: None and 0 are falsy
py_or(a, b) ==
    IF a = None THEN b
    ELSE IF a[1] = 0 THEN b
    ELSE a[1]

\* `a if a is not None else b`, as written out for each flag
if_not_none(a, b) ==
    IF a # None THEN a[1] ELSE b

\* "Determine which settings to use"
check_policy(domain_row, settings) ==
    [track_http |-> if_not_none(domain_row.track_http, settings.track_http),
     track_https |-> if_not_none(domain_row.track_https, settings.track_https),
     track_ssl |-> if_not_none(domain_row.track_ssl, settings.track_ssl),
     track_whois |-> if_not_none(domain_row.track_whois, settings.track_whois),
     ssl_warn_days |-> py_or(domain_row.ssl_warn_days, settings.ssl_warn_days),
     whois_warn_days |-> py_or(domain_row.whois_warn_days, settings.whois_warn_days)]

\* the pairs of a domain row and the settings record of its owner
PolicyEnvs ==
    [row : DomainRows("a.com", 1), settings : SettingsRecords(1)]

PolicyInit ==
    /\ SweepIdle
    /\ OtherIdle
    /\ p_proto = "policy"
    /\ p_env \in PolicyEnvs
    /\ p_out = None

\* perform_check works out the policy of the row it has selected
Resolve ==
    /\ p_out = None
    /\ p_out' = Some(check_policy(p_env.row, p_env.settings))
    /\ UNCHANGED <<p_proto, p_env>>
    /\ UNCHANGED <<sweep_vars, other_vars>>

\* the next check, of another row under another record
NextResolve ==
    /\ p_out # None
    /\ p_env' \in PolicyEnvs
    /\ p_out' = None
    /\ UNCHANGED p_proto
    /\ UNCHANGED <<sweep_vars, other_vars>>

PolicyNext == Resolve \/ NextResolve

SpecPolicy == PolicyInit /\ [][PolicyNext]_vars

PolicyFields ==
    {"track_http", "track_https", "track_ssl", "track_whois", "ssl_warn_days",
     "whois_warn_days"}

\* C24: for every row and settings record, each of the six values perform_check works
\* out is the value get_value gives for the row's field and the record's field, also
\* for a threshold override of 0.
C24_CheckPolicyIsGetValue ==
    (p_proto = "policy" /\ p_out # None) =>
        \A f \in PolicyFields :
            p_out[1][f] = get_value(p_env.row[f], p_env.settings[f])

(***************************************************************************)
(* bot/handlers/settings.py: toggle_setting_handler, scope "domain"        *)
(***************************************************************************)
\* the settings the buttons of /settings <domain> name
DomainSettingNames == {"track_http", "track_ssl"}

\* `not current` of a nullable boolean column: None is falsy
py_not(current) ==
    IF current = None THEN TRUE ELSE ~current[1]

\* update domains set <setting_name> = value where id = the id of the selected row
update_domain(table, n, u, setting_name, value) ==
    [i \in 1..Len(table) |->
        IF table[i].name = n /\ table[i].user_id = u
        THEN [table[i] EXCEPT ![setting_name] = Some(value)]
        ELSE table[i]]

\* toggle_setting_handler, scope "domain", up to the answer of its select
ToggleDomainBegin(s, u, domain_name, setting_name) ==
    /\ hs[s].pc = "idle"
    /\ LET found == SelectDomain(domains, domain_name, u) IN
       IF found = {} THEN Finish(s, "Domain not found")
       ELSE Await(s, "update_domain", "toggle", u, domain_name, setting_name,
                  Some(domains[CHOOSE i \in found : TRUE]))
    /\ UNCHANGED <<domains, user_settings>>
    /\ HandlerFrame

\* toggle_setting_handler, scope "domain", from getattr to its end.  The handler
\* first sets the attribute on the row it fetched; a fetched row of a table select
\* is read-only or not as the installed SQLAlchemy has it, so the assignment raises
\* AttributeError and ends the handler, or passes and the UPDATE is committed.
ToggleDomainCommit(s, row_is_read_only) ==
    /\ hs[s].pc = "update_domain"
    /\ LET h == hs[s]
           current == h.seen[1][h.field]
       IN  IF row_is_read_only
           THEN /\ domains' = domains
                /\ Finish(s, "AttributeError")
           ELSE /\ domains' = update_domain(domains, h.name, h.user, h.field,
                                            py_not(current))
                /\ Finish(s, "toggled")
    /\ UNCHANGED user_settings
    /\ HandlerFrame

\* user 1 monitors a.com, with or without an override of track_http, and has a
\* settings record
ToggleInit ==
    /\ JobsIdle
    /\ \E override \in OptBool :
           domains = <<[NewDomain("a.com", 1) EXCEPT !.track_http = override]>>
    /\ \E rec \in SettingsRecords(1) :
           user_settings = [u \in Senders |-> IF u = 1 THEN Some(rec) ELSE None]
    /\ hs = [s \in Slots |-> IdleHandler]

ToggleNext ==
    \/ \E s \in Slots, u \in Senders, n \in {"a.com", "b.com"},
          f \in DomainSettingNames : ToggleDomainBegin(s, u, n, f)
    \/ \E s \in Slots, row_is_read_only \in BOOLEAN :
           ToggleDomainCommit(s, row_is_read_only)

SpecToggle == ToggleInit /\ [][ToggleNext]_vars

\* C25: when a per-domain toggle of a flag ends, the effective value of the flag for
\* the domain is the negation of what it was, also for an unset override under an
\* owner default of True, and no other field of the row and no settings record has
\* changed.
C25_DomainToggleFlips ==
    [][ \A s \in Slots :
          (hs[s].pc = "update_domain" /\ hs'[s].pc = "idle") =>
              LET h == hs[s]
                  i == CHOOSE k \in SelectDomain(domains, h.name, h.user) : TRUE
                  us == user_settings[h.user][1]
              IN  /\ Effective(domains'[i], us, h.field) = ~Effective(domains[i], us, h.field)
                  /\ \A f \in (DOMAIN domains[i]) \ {h.field} : domains'[i][f] = domains[i][f]
                  /\ user_settings' = user_settings ]_vars


\* C26: no handler creates or changes stored state on behalf of a user who is not in
\* ALLOWED_USER_IDS: whatever messages and callback queries have been handled, such a
\* user has no settings record and no domain row.
C26_UnauthorizedLeaveNoState ==
    \A u \in Senders :
        ~is_authorized(u) =>
            /\ user_settings[u] = None
            /\ \A i \in 1..Len(domains) : domains[i].user_id # u


(***************************************************************************)
(* A sweep job while /remove is handled                                    *)
(***************************************************************************)
\* user 1 monitors a.com; the users have the settings record /settings creates
RemovalInit ==
    /\ JobsIdle
    /\ domains = <<NewDomain("a.com", 1)>>
    /\ user_settings = [u \in Users |-> Some(DefaultSettings(u))]
    /\ hs = [s \in Slots |-> IdleHandler]

\* the jobs of the scheduler and the handlers of the dispatcher run on one event
\* loop (main: scheduler.start, start_polling), so their steps interleave
RemovalNext ==
    \/ Start("http")
    \/ Start("expiry")
    \/ HttpStep
    \/ ExpiryStep
    \/ \E s \in Slots, u \in Senders, parts \in Messages("/remove") :
           RemoveBegin(s, u, parts)
    \/ \E s \in Slots : RemoveCommit(s)

SpecRemoval == RemovalInit /\ [][RemovalNext]_vars

\* a step that is one iteration of the running sweep
IterationStep == pc = "running" /\ (idx' # idx \/ pc' # pc)

\* C27: once the removal of a domain is committed, no notification about the domain
\* is sent to its former owner: an iteration of a sweep, also of one that had started
\* before the removal, sends a message only about a row that is still in the table.
C27_NoNotificationAfterRemoval ==
    [][ (IterationStep /\ ev'[1].sends # <<>>) =>
            SelectDomain(domains, rows[idx].name, rows[idx].user_id) # {} ]_vars
====
